---- MODULE Spec2Model ----
(***************************************************************************)
(* Model of the radi front end: the recursive-descent Parser of            *)
(* src/src/parser.rs, the driver of src/src/main.rs and the size walk of   *)
(* src/src/parser/utils.rs.                                                *)
(*                                                                         *)
(* A token stream is a sequence of [kind, text] records; the token at      *)
(* index i occupies the span [i-1, i).  The parser runs as a machine with  *)
(* an explicit call stack: a frame records the method, the place `at`      *)
(* where it resumes, its locals `l` and the cursor `from` at its entry.    *)
(* One step runs the top frame from its resumption point to its next call, *)
(* its return or its error; an error unwinds the whole stack, as every     *)
(* call site propagates it with `?`.                                       *)
(* Option values are sequences of length 0 (None) or 1 (Some).             *)
(***************************************************************************)
EXTENDS Integers, Sequences, FiniteSets, TLC

VARIABLES tokens, pos, stack, ret, pc, result, size

vars == <<tokens, pos, stack, ret, pc, result, size>>

RECURSIVE ast_size(_)
RECURSIVE def_size(_)
RECURSIVE varit_size(_)
RECURSIVE SumSizes(_, _)

(***************************************************************************)
(* Options, results, spans and tokens                                      *)
(***************************************************************************)
None == <<>>

Some(x) == <<x>>

Ok(v, p) == [ok |-> TRUE, val |-> v, pos |-> p]

Err(e, p) == [ok |-> FALSE, err |-> e, pos |-> p]

Span(s, e) == [start |-> s, end |-> e]

T(k) == [kind |-> k, text |-> ""]

TX(k, s) == [kind |-> k, text |-> s]

Token(i) ==
    [kind |-> tokens[i].kind, text |-> tokens[i].text, span |-> Span(i - 1, i)]

peek(p) == IF p <= Len(tokens) THEN Some(Token(p)) ELSE None

(***************************************************************************)
(* Cursor primitives at cursor p.  A predicate is the set of token kinds   *)
(* it matches; the value it extracts is read off the returned token.       *)
(***************************************************************************)
has_peek(p, pred) ==
    IF peek(p) # None
    THEN IF peek(p)[1].kind \in pred THEN TRUE ELSE FALSE
    ELSE FALSE

maybe_require(p, pred) ==
    IF peek(p) # None
    THEN LET token == peek(p)[1]
         IN  IF token.kind \in pred
             THEN Ok(Some(token), p + 1)
             ELSE Err([kind |-> "Unexpected", tok |-> Some(token),
                       span |-> Some(token.span)], p)
    ELSE Ok(None, p)

require(p, pred) ==
    LET r == maybe_require(p, pred)
    IN  IF ~r.ok THEN r
        ELSE IF r.val # None THEN Ok(r.val[1], r.pos)
        ELSE Err([kind |-> "Unexpected", tok |-> None, span |-> None], p)

\* eat without the call of tokens.next(): the token is returned, not consumed.
eat_peek(p, pred) ==
    IF peek(p) # None
    THEN LET token == peek(p)[1]
         IN  IF token.kind \in pred
             THEN Ok(Some(token), p)
             ELSE Ok(None, p)
    ELSE Ok(None, p)

eat(p, pred) ==
    IF peek(p) # None
    THEN LET token == peek(p)[1]
         IN  IF token.kind \in pred
             THEN Ok(Some(token), p + 1)
             ELSE Ok(None, p)
    ELSE Ok(None, p)

(***************************************************************************)
(* The call stack                                                          *)
(***************************************************************************)
Frame(fn, at, l, from) == [fn |-> fn, at |-> at, l |-> l, from |-> from]

NoLocals == <<>>

NoRet == [fn |-> "", from |-> 0, value |-> <<>>]

Top == stack[Len(stack)]

Running(fn) == pc = "parsing" /\ stack # <<>> /\ Top.fn = fn

\* Outcomes of one step of the top frame.
CallO(at, l, fn, args, p) ==
    [k |-> "call", at |-> at, l |-> l, fn |-> fn, args |-> args, pos |-> p]

GotoO(at, l, p) == [k |-> "goto", at |-> at, l |-> l, pos |-> p]

RetO(v, p) == [k |-> "return", val |-> v, pos |-> p]

FailO(e, p) == [k |-> "fail", err |-> e, pos |-> p]

\* r? : the error of r, or else the outcome o.
Try(r, o) == IF ~r.ok THEN FailO(r.err, r.pos) ELSE o

Resumed(at, l) == [stack EXCEPT ![Len(stack)] = [@ EXCEPT !.at = at, !.l = l]]

Apply(o) ==
    /\ pos' = o.pos
    /\ UNCHANGED <<tokens, size>>
    /\ CASE o.k = "call" ->
              /\ stack' = Append(Resumed(o.at, o.l), Frame(o.fn, 0, o.args, o.pos))
              /\ ret' = NoRet
              /\ UNCHANGED <<pc, result>>
         [] o.k = "goto" ->
              /\ stack' = Resumed(o.at, o.l)
              /\ ret' = NoRet
              /\ UNCHANGED <<pc, result>>
         [] o.k = "return" ->
              /\ stack' = SubSeq(stack, 1, Len(stack) - 1)
              /\ ret' = [fn |-> Top.fn, from |-> Top.from, value |-> o.val]
              /\ IF Len(stack) = 1
                 THEN pc' = "parsed" /\ result' = Ok(o.val, o.pos)
                 ELSE UNCHANGED <<pc, result>>
         [] o.k = "fail" ->
              /\ stack' = <<>>
              /\ ret' = NoRet
              /\ pc' = "failed"
              /\ result' = Err(o.err, o.pos)

(***************************************************************************)
(* AST nodes                                                               *)
(***************************************************************************)
ObjectExpr(defs, s, e) == [kind |-> "Object", definitions |-> defs, span |-> Span(s, e)]

TupleExpr(exprs, s, e) == [kind |-> "Tuple", exprs |-> exprs, span |-> Span(s, e)]

ScopeExpr(body, s, e) == [kind |-> "Scope", body |-> body, span |-> Span(s, e)]

LambdaExpr(arg, body) ==
    [kind |-> "Lambda", arg |-> arg, body |-> body,
     span |-> Span(arg.span.start, body.span.end)]

TypeAssertionExpr(a, b) ==
    [kind |-> "TypeAssertion", a |-> a, b |-> b,
     span |-> Span(a.span.start, b.span.end)]

BinOpSpan(a, b) == Span(a.span.start, a.span.end)

\* bin_op with the operands of the new node exchanged.
BinOpExprSwapped(op, a, b) ==
    [kind |-> "BinOp", op |-> op, lhs |-> b, rhs |-> a, span |-> BinOpSpan(a, b)]

BinOpExpr(op, a, b) ==
    [kind |-> "BinOp", op |-> op, lhs |-> a, rhs |-> b, span |-> BinOpSpan(a, b)]

UnOpExpr(op, arg, s, e) == [kind |-> "UnOp", op |-> op, arg |-> arg, span |-> Span(s, e)]

AccessExpr(e, prop) ==
    [kind |-> "Access", expr |-> e, prop |-> prop.text,
     span |-> Span(e.span.start, prop.span.end)]

ApplyExpr(a, b) ==
    [kind |-> "Apply", a |-> a, b |-> b, span |-> Span(a.span.start, b.span.end)]

LiteralPred == ("Float" :> "Float") @@ ("Integer" :> "Integer") @@ ("String" :> "String")

AtomExpr(t) ==
    IF t.kind = "Name"
    THEN [kind |-> "Ident", name |-> t.text, span |-> t.span]
    ELSE [kind |-> "Literal", lit |-> LiteralPred[t.kind], text |-> t.text,
          span |-> t.span]

VariantItem(name, value, s, e) == [name |-> name, value |-> value, span |-> Span(s, e)]

VariantExpr(items) ==
    [kind |-> "Variant", items |-> items,
     span |-> Span(items[1].span.start, items[Len(items)].span.end)]

ExprItem(e) == [item |-> "Expr", expr |-> e]

DefItem(d) == [item |-> "Def", def |-> d]

EmptyItem == [item |-> "Empty"]

DefRecord(name, value, s, e) == [name |-> name, value |-> value, span |-> Span(s, e)]

(***************************************************************************)
(* parse, object_body, def, def_block                                      *)
(***************************************************************************)
ObjectBodyArgs(end_pred) == [end_pred |-> end_pred, defs |-> <<>>]

ScopeArgs(start, end_pred) == [start |-> start, end_pred |-> end_pred]

parse ==
    /\ Running("parse")
    /\ Apply(CASE Top.at = 0 ->
                    CallO(1, NoLocals, "object_body", ObjectBodyArgs({}), pos)
               [] Top.at = 1 ->
                    LET definitions == ret.value
                    IN  IF definitions # <<>>
                        THEN RetO(ObjectExpr(definitions, definitions[1].span.start,
                                      definitions[Len(definitions)].span.end), pos)
                        ELSE RetO(ObjectExpr(<<>>, 0, 0), pos))

\* The while loop of object_body with the definitions collected so far.
object_body_loop(l, defs, p) ==
    IF peek(p) # None /\ peek(p)[1].kind \notin l.end_pred
    THEN CallO(1, [l EXCEPT !.defs = defs], "def", NoLocals, p)
    ELSE RetO(defs, p)

object_body ==
    /\ Running("object_body")
    /\ Apply(CASE Top.at = 0 -> object_body_loop(Top.l, <<>>, pos)
               [] Top.at = 1 -> object_body_loop(Top.l, Append(Top.l.defs, ret.value), pos))

\* A terminator that takes a `;` when there is one and never demands it.
def_end_optional(value, needs_semi, p) ==
    IF needs_semi /\ has_peek(p, {"Semicolon"})
    THEN Ok(p, p + 1)
    ELSE Ok(value.span.end, p)

\* A terminator that demands `;` after every value.
def_end_always(value, needs_semi, p) ==
    LET semi == require(p, {"Semicolon"})
    IN  IF ~semi.ok THEN semi ELSE Ok(semi.val.span.end, semi.pos)

\* The terminator of def() (lines 93-97): the end offset of the definition.
def_end(value, needs_semi, p) ==
    IF needs_semi
    THEN LET semi == require(p, {"Semicolon"})
         IN  IF ~semi.ok THEN semi ELSE Ok(semi.val.span.end, semi.pos)
    ELSE Ok(value.span.end, p)

def ==
    /\ Running("def")
    /\ Apply(CASE Top.at = 0 ->
                    LET kw == require(pos, {"Def"})
                        name == require(kw.pos, {"Name"})
                    IN  Try(kw, Try(name,
                            CallO(1, [start |-> kw.val.span.start, name |-> name.val.text],
                                  "def_block", NoLocals, name.pos)))
               [] Top.at = 1 ->
                    LET value == ret.value[1]
                        needs_semi == ret.value[2]
                        end == def_end(value, needs_semi, pos)
                    IN  Try(end, RetO(DefRecord(Top.l.name, value, Top.l.start, end.val),
                                      end.pos)))

def_block ==
    /\ Running("def_block")
    /\ Apply(CASE Top.at = 0 ->
                    LET open == eat(pos, {"OpenBrace"})
                        dopen == eat(pos, {"DotOpenBrace"})
                    IN  IF open.val # None
                        THEN CallO(1, NoLocals, "scope",
                                   ScopeArgs(open.val[1].span.start, {"CloseBrace"}),
                                   open.pos)
                        ELSE IF dopen.val # None
                        THEN CallO(2, [open |-> dopen.val[1]], "object_body",
                                   ObjectBodyArgs({"CloseBrace"}), dopen.pos)
                        ELSE CallO(3, NoLocals, "def_expr", NoLocals, pos)
               [] Top.at = 1 -> RetO(<<ret.value, FALSE>>, pos)
               [] Top.at = 2 ->
                    LET close == require(pos, {"CloseBrace"})
                    IN  Try(close,
                            RetO(<<ObjectExpr(ret.value, Top.l.open.span.start,
                                              close.val.span.end), FALSE>>, close.pos))
               [] Top.at = 3 -> RetO(ret.value, pos))

(***************************************************************************)
(* block, scope, tuple                                                     *)
(***************************************************************************)
block ==
    /\ Running("block")
    /\ Apply(CASE Top.at = 0 ->
                    LET open == eat(pos, {"OpenBrace"})
                        dopen == eat(pos, {"DotOpenBrace"})
                    IN  IF open.val # None
                        THEN CallO(1, NoLocals, "scope",
                                   ScopeArgs(open.val[1].span.start, {"CloseBrace"}),
                                   open.pos)
                        ELSE IF dopen.val # None
                        THEN CallO(2, [open |-> dopen.val[1]], "object_body",
                                   ObjectBodyArgs({"CloseBrace"}), dopen.pos)
                        ELSE CallO(1, NoLocals, "expr", NoLocals, pos)
               [] Top.at = 1 -> RetO(ret.value, pos)
               [] Top.at = 2 ->
                    LET close == require(pos, {"CloseBrace"})
                    IN  Try(close,
                            RetO(ObjectExpr(ret.value, Top.l.open.span.start,
                                            close.val.span.end), close.pos)))

ScopeLocals(l, body, semi) ==
    [start |-> l.start, end_pred |-> l.end_pred, body |-> body, semi |-> semi]

\* The trailing Empty pushed whatever semi says.
ScopeTailAlways(body, semi) == Append(body, EmptyItem)

ScopeTail(body, semi) == IF semi THEN Append(body, EmptyItem) ELSE body

\* The end of scope() after its loop (lines 207-221).
scope_exit(l, body, semi, p) ==
    LET close == require(p, l.end_pred)
    IN  Try(close, RetO(ScopeExpr(ScopeTail(body, semi), l.start, close.val.span.end),
                        close.pos))

\* The head of the while loop of scope() (lines 189-195).
scope_loop(l, body, semi, p) ==
    IF peek(p) # None /\ peek(p)[1].kind \notin l.end_pred
    THEN IF has_peek(p, l.end_pred) THEN scope_exit(l, body, semi, p)
         ELSE IF has_peek(p, {"Def"})
         THEN CallO(3, ScopeLocals(l, body, semi), "def", NoLocals, p)
         ELSE CallO(4, ScopeLocals(l, body, semi), "tuple", NoLocals, p)
    ELSE scope_exit(l, body, semi, p)

scope ==
    /\ Running("scope")
    /\ Apply(CASE Top.at = 0 ->
                    LET close == eat(pos, Top.l.end_pred)
                    IN  IF close.val # None
                        THEN RetO(TupleExpr(<<>>, Top.l.start, close.val[1].span.end),
                                  close.pos)
                        ELSE IF ~has_peek(pos, {"Def"})
                        THEN CallO(1, Top.l, "tuple", NoLocals, pos)
                        ELSE scope_loop(Top.l, <<>>, TRUE, pos)
               [] Top.at = 1 ->
                    LET first == ret.value
                    IN  IF eat(pos, Top.l.end_pred).val # None
                        THEN RetO(first, pos + 1)
                        ELSE LET semi == require(pos, {"Semicolon"})
                             IN  Try(semi, scope_loop(Top.l, <<ExprItem(first)>>, TRUE,
                                                      semi.pos))
               [] Top.at = 3 ->
                    scope_loop(Top.l, Append(Top.l.body, DefItem(ret.value)), Top.l.semi, pos)
               [] Top.at = 4 ->
                    LET body == Append(Top.l.body, ExprItem(ret.value))
                    IN  IF eat(pos, {"Semicolon"}).val = None
                        THEN scope_exit(Top.l, body, FALSE, pos)
                        ELSE scope_loop(Top.l, body, TRUE, pos + 1))

\* The while loop of tuple() and its result (lines 230-246).
tuple_loop(items, p) ==
    IF eat(p, {"Comma"}).val # None
    THEN CallO(2, [items |-> items], "block", NoLocals, p + 1)
    ELSE RetO(TupleExpr(items, items[1].span.start, items[Len(items)].span.end), p)

tuple ==
    /\ Running("tuple")
    /\ Apply(CASE Top.at = 0 -> CallO(1, NoLocals, "block", NoLocals, pos)
               [] Top.at = 1 ->
                    LET first == ret.value
                    IN  IF has_peek(pos, {"Comma"})
                        THEN tuple_loop(<<first>>, pos)
                        ELSE RetO(first, pos)
               [] Top.at = 2 -> tuple_loop(Append(Top.l.items, ret.value), pos))

(***************************************************************************)
(* def_expr, expr                                                          *)
(***************************************************************************)
\* A trailing `:: logical` taken only when no lambda body came before it, the
\* way expr() treats `.{`.
def_expr_assert_exclusive(a, p) ==
    IF a[2] /\ eat(p, {"ColonColon"}).val # None
    THEN CallO(4, [a |-> a], "logical", NoLocals, p + 1)
    ELSE RetO(a, p)

\* The trailing `:: logical` of def_expr (lines 300-318); a is <<expr, needs_semi>>.
def_expr_assert(a, p) ==
    IF eat(p, {"ColonColon"}).val # None
    THEN CallO(4, [a |-> a], "logical", NoLocals, p + 1)
    ELSE RetO(a, p)

def_expr ==
    /\ Running("def_expr")
    /\ Apply(CASE Top.at = 0 -> CallO(1, NoLocals, "logical", NoLocals, pos)
               [] Top.at = 1 ->
                    LET a == ret.value
                        open == eat(pos, {"OpenBrace"})
                        dopen == eat(pos, {"DotOpenBrace"})
                    IN  IF open.val # None
                        THEN CallO(2, [a |-> a], "scope",
                                   ScopeArgs(open.val[1].span.start, {"CloseBrace"}),
                                   open.pos)
                        ELSE IF dopen.val # None
                        THEN CallO(3, [a |-> a, open |-> dopen.val[1]], "object_body",
                                   ObjectBodyArgs({"CloseBrace"}), dopen.pos)
                        ELSE def_expr_assert(<<a, TRUE>>, pos)
               [] Top.at = 2 ->
                    def_expr_assert(<<LambdaExpr(Top.l.a, ret.value), FALSE>>, pos)
               [] Top.at = 3 ->
                    LET close == require(pos, {"CloseBrace"})
                    IN  Try(close,
                            def_expr_assert(
                                <<LambdaExpr(Top.l.a,
                                      ObjectExpr(ret.value, Top.l.open.span.start,
                                                 close.val.span.end)), FALSE>>,
                                close.pos))
               [] Top.at = 4 ->
                    RetO(<<TypeAssertionExpr(Top.l.a[1], ret.value), TRUE>>, pos))

\* The second half of expr (lines 339-378): `:: logical`, else `.{ ... }`.
expr_rest(a, p) ==
    LET dopen == eat(p, {"DotOpenBrace"})
    IN  IF eat(p, {"ColonColon"}).val # None
        THEN CallO(3, [a |-> a], "logical", NoLocals, p + 1)
        ELSE IF dopen.val # None
        THEN CallO(4, [a |-> a, open |-> dopen.val[1]], "object_body",
                   ObjectBodyArgs({"CloseBrace"}), dopen.pos)
        ELSE RetO(a, p)

expr ==
    /\ Running("expr")
    /\ Apply(CASE Top.at = 0 -> CallO(1, NoLocals, "logical", NoLocals, pos)
               [] Top.at = 1 ->
                    LET a == ret.value
                        open == eat(pos, {"OpenBrace"})
                    IN  IF open.val # None
                        THEN CallO(2, [a |-> a], "scope",
                                   ScopeArgs(open.val[1].span.start, {"CloseBrace"}),
                                   open.pos)
                        ELSE expr_rest(a, pos)
               [] Top.at = 2 -> expr_rest(LambdaExpr(Top.l.a, ret.value), pos)
               [] Top.at = 3 -> RetO(TypeAssertionExpr(Top.l.a, ret.value), pos)
               [] Top.at = 4 ->
                    LET close == require(pos, {"CloseBrace"})
                    IN  Try(close,
                            RetO(LambdaExpr(Top.l.a,
                                     ObjectExpr(ret.value, Top.l.open.span.start,
                                                close.val.span.end)), close.pos)))

(***************************************************************************)
(* Binary operator tiers                                                   *)
(***************************************************************************)
LogicalPred == ("AmpAmp" :> "And") @@ ("PipePipe" :> "Or")

EqualPred == ("Equal" :> "Equal") @@ ("NotEqual" :> "NotEqual")

CmpPred == ("Gt" :> "Gt") @@ ("GtEq" :> "GtEq") @@ ("Lt" :> "Lt") @@ ("LtEq" :> "LtEq")

TermsPred == ("Plus" :> "Add") @@ ("Minus" :> "Sub")

FactorsPred == ("Star" :> "Mul") @@ ("Slash" :> "Div") @@ ("Percent" :> "Mod")

PrefixPred == ("Bang" :> "Not") @@ ("Set" :> "Set") @@ ("Val" :> "Val") @@ ("Caret" :> "Ref")

BinOpArgs(next, pred) == [next |-> next, pred |-> pred]

\* A tier: self.bin_op(next, pred), whose result is the tier's result.
Ladder(args) ==
    Apply(CASE Top.at = 0 -> CallO(1, NoLocals, "bin_op", args, pos)
            [] Top.at = 1 -> RetO(ret.value, pos))

LogicalArgs == BinOpArgs("equal", LogicalPred)

EqualArgs == BinOpArgs("cmp", EqualPred)

CmpArgs == BinOpArgs("terms", CmpPred)

\* terms taking the operators of factors as its own, over prefix.
TermsArgsFlat == BinOpArgs("prefix", TermsPred @@ FactorsPred)

TermsArgs == BinOpArgs("factors", TermsPred)

FactorsArgs == BinOpArgs("prefix", FactorsPred)

logical == Running("logical") /\ Ladder(LogicalArgs)

equal == Running("equal") /\ Ladder(EqualArgs)

cmp == Running("cmp") /\ Ladder(CmpArgs)

terms == Running("terms") /\ Ladder(TermsArgs)

factors == Running("factors") /\ Ladder(FactorsArgs)

\* The while loop of bin_op() with the left operand a folded so far.
bin_op_loop(l, a, p) ==
    LET op == eat(p, DOMAIN l.pred)
    IN  IF op.val # None
        THEN CallO(2, [next |-> l.next, pred |-> l.pred, a |-> a,
                       op |-> l.pred[op.val[1].kind]], l.next, NoLocals, op.pos)
        ELSE RetO(a, p)

bin_op ==
    /\ Running("bin_op")
    /\ Apply(CASE Top.at = 0 -> CallO(1, Top.l, Top.l.next, NoLocals, pos)
               [] Top.at = 1 -> bin_op_loop(Top.l, ret.value, pos)
               [] Top.at = 2 ->
                    bin_op_loop(Top.l, BinOpExpr(Top.l.op, Top.l.a, ret.value), pos))

(***************************************************************************)
(* prefix, suffix, maybe_atom, variant                                     *)
(***************************************************************************)
prefix ==
    /\ Running("prefix")
    /\ Apply(CASE Top.at = 0 ->
                    LET m == eat(pos, DOMAIN PrefixPred)
                    IN  IF m.val # None
                        THEN CallO(1, [op |-> PrefixPred[m.val[1].kind],
                                       op_span |-> m.val[1].span],
                                   "prefix", NoLocals, m.pos)
                        ELSE CallO(2, NoLocals, "suffix", NoLocals, pos)
               [] Top.at = 1 ->
                    RetO(UnOpExpr(Top.l.op, ret.value, Top.l.op_span.start,
                                  ret.value.span.end), pos)
               [] Top.at = 2 -> RetO(ret.value, pos))

SuffixError(p) == [kind |-> "Unexpected", tok |-> peek(p), span |-> None]

\* One round of the loop of suffix() (lines 468-512) on the expression a.
suffix_loop(a, p) ==
    LET caret == eat(p, {"Caret"})
        dot == eat(p, {"Dot"})
        prop == require(dot.pos, {"Name"})
    IN  IF caret.val # None
        THEN GotoO(2, [a |-> UnOpExpr("Deref", a, a.span.start, caret.val[1].span.end)],
                   caret.pos)
        ELSE IF dot.val # None
        THEN Try(prop, GotoO(2, [a |-> AccessExpr(a, prop.val)], prop.pos))
        ELSE CallO(3, [a |-> a], "maybe_atom", NoLocals, p)

suffix ==
    /\ Running("suffix")
    /\ Apply(CASE Top.at = 0 -> CallO(1, NoLocals, "maybe_atom", NoLocals, pos)
               [] Top.at = 1 ->
                    IF ret.value = None
                    THEN FailO(SuffixError(pos), pos)
                    ELSE suffix_loop(ret.value[1], pos)
               [] Top.at = 2 -> suffix_loop(Top.l.a, pos)
               [] Top.at = 3 ->
                    IF ret.value # None
                    THEN suffix_loop(ApplyExpr(Top.l.a, ret.value[1]), pos)
                    ELSE RetO(Top.l.a, pos))

\* A lookahead that also lets `:` through.
VariantGuardLoose == {"Pipe", "Colon"}

\* The lookahead that sends maybe_atom into variant() (line 522).
VariantGuard == {"Pipe"}

maybe_atom ==
    /\ Running("maybe_atom")
    /\ Apply(CASE Top.at = 0 ->
                    LET open == eat(pos, {"OpenParen"})
                        t == eat(pos, DOMAIN LiteralPred \cup {"Name"})
                    IN  IF open.val # None
                        THEN CallO(1, NoLocals, "scope",
                                   ScopeArgs(open.val[1].span.start, {"CloseParen"}),
                                   open.pos)
                        ELSE IF has_peek(pos, VariantGuard)
                        THEN CallO(1, NoLocals, "variant", NoLocals, pos)
                        ELSE IF t.val # None
                        THEN RetO(Some(AtomExpr(t.val[1])), t.pos)
                        ELSE RetO(None, pos)
               [] Top.at = 1 -> RetO(Some(ret.value), pos))

\* The while loop of variant() and its result (lines 538-565).  The unwrap of
\* first/last on an empty item list is a panic, the error kind "Panic".
variant_loop(items, p) ==
    LET pipe == eat(p, {"Pipe"})
        start == pipe.val[1].span.start
        name == require(pipe.pos, {"Name"})
    IN  IF pipe.val # None
        THEN Try(name,
                 IF eat(name.pos, {"Colon"}).val # None
                 THEN CallO(1, [items |-> items, start |-> start, name |-> name.val.text],
                            "expr", NoLocals, name.pos + 1)
                 ELSE GotoO(2, [items |-> Append(items,
                                    VariantItem(name.val.text, None, start,
                                                name.val.span.end))],
                            name.pos))
        ELSE IF items = <<>>
        THEN FailO([kind |-> "Panic", tok |-> None, span |-> None], p)
        ELSE RetO(VariantExpr(items), p)

variant ==
    /\ Running("variant")
    /\ Apply(CASE Top.at = 0 -> variant_loop(<<>>, pos)
               [] Top.at = 1 ->
                    variant_loop(Append(Top.l.items,
                                     VariantItem(Top.l.name, Some(ret.value), Top.l.start,
                                                 ret.value.span.end)), pos)
               [] Top.at = 2 -> variant_loop(Top.l.items, pos))

(***************************************************************************)
(* The size walk of parser/utils.rs                                        *)
(***************************************************************************)
ExprSize == 48

DefSize == 40

VariantItemSize == 80

ItemOverhead == 8

\* Sum of f over a sequence; which selects the element walk.
SumSizes(xs, which) ==
    IF xs = <<>> THEN 0
    ELSE (CASE which = "expr" -> ast_size(xs[1])
            [] which = "def" -> def_size(xs[1])
            [] which = "varit" -> varit_size(xs[1])
            [] which = "item" ->
                 (CASE xs[1].item = "Expr" -> ast_size(xs[1].expr) + ItemOverhead
                    [] xs[1].item = "Def" -> def_size(xs[1].def) + ItemOverhead
                    [] xs[1].item = "Empty" -> ItemOverhead))
         + SumSizes(Tail(xs), which)

ast_size(e) ==
    ExprSize +
    CASE e.kind = "Object" -> SumSizes(e.definitions, "def")
      [] e.kind = "Scope" -> SumSizes(e.body, "item")
      [] e.kind = "Lambda" -> ast_size(e.arg) + ast_size(e.body)
      [] e.kind = "BinOp" -> ast_size(e.lhs) + ast_size(e.rhs)
      [] e.kind = "UnOp" -> ast_size(e.arg)
      [] e.kind = "Access" -> ast_size(e.expr) + Len(e.prop)
      [] e.kind = "Tuple" -> SumSizes(e.exprs, "expr")
      [] e.kind = "Apply" -> ast_size(e.a) + ast_size(e.b)
      [] e.kind = "TypeAssertion" -> ast_size(e.a) + ast_size(e.b)
      [] e.kind = "Variant" -> SumSizes(e.items, "varit")
      [] e.kind = "Ident" -> Len(e.name)
      [] e.kind = "Literal" /\ e.lit = "String" -> Len(e.text)
      [] OTHER -> 0

def_size(d) == DefSize + Len(d.name) + ast_size(d.value)

varit_size(v) ==
    VariantItemSize + (IF v.value # None THEN ast_size(v.value[1]) ELSE 0)

(***************************************************************************)
(* The driver (main.rs): parse the stream, then size the tree.             *)
(***************************************************************************)
NoResult == Err([kind |-> "NotRun", tok |-> None, span |-> None], 0)

main_parse ==
    /\ pc = "start"
    /\ pc' = "parsing"
    /\ stack' = <<Frame("parse", 0, NoLocals, 1)>>
    /\ UNCHANGED <<tokens, pos, ret, result, size>>

main_ast_size ==
    /\ pc = "parsed"
    /\ size' = ast_size(result.val)
    /\ pc' = "done"
    /\ UNCHANGED <<tokens, pos, stack, ret, result>>

Next ==
    \/ main_parse
    \/ parse \/ object_body \/ def \/ def_block
    \/ block \/ scope \/ tuple
    \/ def_expr \/ expr
    \/ logical \/ equal \/ cmp \/ terms \/ factors \/ bin_op
    \/ prefix \/ suffix \/ maybe_atom \/ variant
    \/ main_ast_size

(***************************************************************************)
(* Token streams                                                           *)
(***************************************************************************)
MaxOps == 2

MaxItems == 2

MaxNoise == 4

MaxScopeLen == 5

MaxDefLen == 4

Seqs(S, n) == UNION {[1..k -> S] : k \in 0..n}

\* The token a word of source text is lexed to.
Word(w) ==
    CASE w = "def" -> T("Def")
      [] w = "(" -> T("OpenParen")
      [] w = ")" -> T("CloseParen")
      [] w = "{" -> T("OpenBrace")
      [] w = "}" -> T("CloseBrace")
      [] w = ".{" -> T("DotOpenBrace")
      [] w = ";" -> T("Semicolon")
      [] w = "," -> T("Comma")
      [] w = ":" -> T("Colon")
      [] w = "::" -> T("ColonColon")
      [] w = "|" -> T("Pipe")
      [] w = "." -> T("Dot")
      [] w = "^" -> T("Caret")
      [] w = "!" -> T("Bang")
      [] w = "=" -> T("Assign")
      [] w = "==" -> T("Equal")
      [] w = "+" -> T("Plus")
      [] w = "-" -> T("Minus")
      [] w = "*" -> T("Star")
      [] w \in {"1", "2", "3"} -> TX("Integer", w)
      [] OTHER -> TX("Name", w)

Lex(ws) == [i \in DOMAIN ws |-> Word(ws[i])]

Start(ts) ==
    /\ tokens = ts
    /\ pos = 1
    /\ stack = <<>>
    /\ ret = NoRet
    /\ pc = "start"
    /\ result = NoResult
    /\ size = 0

\* A few whole programs, part of every family.
Samples ==
    {Lex(<<"def", "f", "x", "{", "(", "x", ",", "|", "T", ":", "y", ")", "}">>),
     Lex(<<"def", "o", ".{", "def", "b", "!", "x", ".", "p", "^", ";", "}">>),
     Lex(<<"def", "a", "(", "a", ";", "b", ")", ";">>),
     Lex(<<"def", "a", "(", "a", ";", "b", ";", ")", ";">>),
     Lex(<<"def", "a", "1", ";">>),
     Lex(<<"def", "a", "|", "Ok", ";">>),
     <<>>}

DefOf(value) == <<T("Def"), TX("Name", "a")>> \o value

Terminators == {<<>>, <<T("Semicolon")>>}

BinOps == LogicalPred @@ EqualPred @@ CmpPred @@ TermsPred @@ FactorsPred

TierOf(k) ==
    CASE k \in DOMAIN LogicalPred -> 1
      [] k \in DOMAIN EqualPred -> 2
      [] k \in DOMAIN CmpPred -> 3
      [] k \in DOMAIN TermsPred -> 4
      [] k \in DOMAIN FactorsPred -> 5

\* The i-th operand of a chain: x, 1, y, 2, ...
Operand(i) ==
    IF i % 2 = 1 THEN TX("Name", <<"x", "y", "z", "u", "v", "w">>[(i + 1) \div 2])
    ELSE TX("Integer", <<"1", "2", "3", "4", "5", "6">>[i \div 2])

\* x1 op1 x2 op2 ... opn x(n+1)
Chain(ops) ==
    [i \in 1..(2 * Len(ops) + 1) |->
        IF i % 2 = 1 THEN Operand((i + 1) \div 2) ELSE T(ops[i \div 2])]

OpInputs ==
    {DefOf(Chain(ops)) \o <<T("Semicolon")>> : ops \in Seqs(DOMAIN BinOps, MaxOps)}

InitOps == \E ts \in OpInputs \cup Samples : Start(ts)

SpecOps == InitOps /\ [][Next]_vars

\* The tag of the i-th item of a variant literal.
Tag(i) == <<"Ok", "Err", "Nil", "Etc", "End">>[i]

\* What may follow `| Tag`: nothing, or `:` and a one-token value.
ItemValues == {None, Some(TX("Integer", "1")), Some(TX("Name", "x"))}

VariantItemTokens(i, v) ==
    <<T("Pipe"), TX("Name", Tag(i))>> \o (IF v = None THEN <<>> ELSE <<T("Colon"), v[1]>>)

RECURSIVE VariantTokens(_, _)
\* | Tag1 [: v1] | Tag2 [: v2] ... for the first n choices of vals.
VariantTokens(vals, n) ==
    IF n = 0 THEN <<>>
    ELSE VariantTokens(vals, n - 1) \o VariantItemTokens(n, vals[n])

ValueChoices == UNION {[1..n -> ItemValues] : n \in 1..MaxItems}

VariantAlphabet ==
    {T("Pipe"), TX("Name", "Ok"), T("Colon"), TX("Integer", "1"), T("Semicolon"),
     T("OpenParen"), T("CloseParen")}

VariantInputs ==
    {DefOf(VariantTokens(vals, Len(vals))) \o term :
        vals \in ValueChoices, term \in Terminators}
    \cup {DefOf(s) : s \in Seqs(VariantAlphabet, MaxNoise)}

InitVariant == \E ts \in VariantInputs \cup Samples : Start(ts)

SpecVariant == InitVariant /\ [][Next]_vars

\* Scope bodies: `def a OPEN s` for every s over names, `;`, `def` and the
\* closing token of OPEN.
ScopeAlphabet == {"x", ";", "def", "end"}

Closer(open) == IF open = "(" THEN ")" ELSE "}"

ScopeWords(open, s) ==
    <<"def", "a", open>> \o [i \in DOMAIN s |-> IF s[i] = "end" THEN Closer(open) ELSE s[i]]

ScopeInputs ==
    {Lex(ScopeWords(open, s)) : open \in {"(", "{"}, s \in Seqs(ScopeAlphabet, MaxScopeLen)}

InitScope == \E ts \in ScopeInputs \cup Samples : Start(ts)

SpecScope == InitScope /\ [][Next]_vars

\* Definitions: `def a` followed by a value of each form and what comes after
\* it, and by every short sequence over the tokens def() and def_expr() look at.
DefValues ==
    {<<"x">>, <<"1">>, <<"=", "1">>, <<"==", "1">>,
     <<"{", "x", "}">>, <<".{", "}">>,
     <<"x", "{", "x", "}">>, <<"x", ".{", "}">>,
     <<"x", "::", "t">>,
     <<"x", "{", "x", "}", "::", "t">>, <<"x", ".{", "}", "::", "t">>,
     <<"(", "x", "{", "x", "}", ")">>}

DefFollows == {<<>>, <<";">>, <<"x">>, <<"}">>, <<";", "def", "b", "1", ";">>,
               <<"def", "b", "1", ";">>}

DefAlphabet == {"x", ";", "{", "}", ".{", "::", "="}

DefInputs ==
    {Lex(<<"def", "a">> \o v \o f) : v \in DefValues, f \in DefFollows}
    \cup {Lex(<<"def", "a">> \o s) : s \in Seqs(DefAlphabet, MaxDefLen)}

InitDef == \E ts \in DefInputs \cup Samples : Start(ts)

SpecDef == InitDef /\ [][Next]_vars

Init == \E ts \in Samples : Start(ts)

Spec == Init /\ [][Next]_vars

(***************************************************************************)
(* Reading the outcome                                                     *)
(***************************************************************************)
Finished == pc \in {"parsed", "done", "failed"}

\* The value of the first top-level definition of a parsed program.
Value == result.val.definitions[1].value

Children(e) ==
    CASE e.kind = "Object" -> {e.definitions[i].value : i \in DOMAIN e.definitions}
      [] e.kind = "Scope" ->
             {e.body[i].expr : i \in {j \in DOMAIN e.body : e.body[j].item = "Expr"}}
             \cup {e.body[i].def.value : i \in {j \in DOMAIN e.body : e.body[j].item = "Def"}}
      [] e.kind = "Lambda" -> {e.arg, e.body}
      [] e.kind = "BinOp" -> {e.lhs, e.rhs}
      [] e.kind = "UnOp" -> {e.arg}
      [] e.kind = "Access" -> {e.expr}
      [] e.kind = "Tuple" -> {e.exprs[i] : i \in DOMAIN e.exprs}
      [] e.kind = "Apply" -> {e.a, e.b}
      [] e.kind = "TypeAssertion" -> {e.a, e.b}
      [] e.kind = "Variant" ->
             {e.items[i].value[1] : i \in {j \in DOMAIN e.items : e.items[j].value # None}}
      [] OTHER -> {}

RECURSIVE SubExprs(_)
\* Every node of the tree rooted at e.
SubExprs(e) == {e} \cup UNION {SubExprs(c) : c \in Children(e)}

(***************************************************************************)
(* Binary operators: precedence, associativity, spans                      *)
(***************************************************************************)
\* The operators of the stream when it reads `def a x1 op1 x2 ... opn x(n+1) ;`.
OpsOf(ts) == [i \in 1..((Len(ts) - 4) \div 2) |-> ts[2 * i + 2].kind]

IsChainInput(ts) ==
    /\ Len(ts) >= 6
    /\ Len(ts) % 2 = 0
    /\ \A i \in 1..((Len(ts) - 4) \div 2) : ts[2 * i + 2].kind \in DOMAIN BinOps
    /\ ts = DefOf(Chain(OpsOf(ts))) \o <<T("Semicolon")>>

\* The node expected for the i-th operand of a chain (the token at index 2i+1).
Leaf(i) ==
    IF Operand(i).kind = "Name"
    THEN [kind |-> "Ident", name |-> Operand(i).text, span |-> Span(2 * i, 2 * i + 1)]
    ELSE [kind |-> "Literal", lit |-> "Integer", text |-> Operand(i).text,
          span |-> Span(2 * i, 2 * i + 1)]

IsBinOp(e, k) == e.kind = "BinOp" /\ e.op = BinOps[k]

\* BinOp(o1, x, BinOp(o2, y, z))
GroupsRight(e, o1, o2) ==
    /\ IsBinOp(e, o1) /\ e.lhs = Leaf(1)
    /\ IsBinOp(e.rhs, o2) /\ e.rhs.lhs = Leaf(2) /\ e.rhs.rhs = Leaf(3)

\* BinOp(o2, BinOp(o1, x, y), z)
GroupsLeft(e, o1, o2) ==
    /\ IsBinOp(e, o2) /\ e.rhs = Leaf(3)
    /\ IsBinOp(e.lhs, o1) /\ e.lhs.lhs = Leaf(1) /\ e.lhs.rhs = Leaf(2)

\* C1: on `x op1 y op2 z` with op1 and op2 of different tiers, the operator of
\* the tighter tier is grouped first: BinOp(op1, x, BinOp(op2, y, z)) when op2 is
\* tighter, BinOp(op2, BinOp(op1, x, y), z) when op1 is tighter.
C1_Precedence ==
    (Finished /\ IsChainInput(tokens) /\ Len(OpsOf(tokens)) = 2
        /\ TierOf(OpsOf(tokens)[1]) # TierOf(OpsOf(tokens)[2]))
    => /\ result.ok
       /\ IF TierOf(OpsOf(tokens)[2]) > TierOf(OpsOf(tokens)[1])
          THEN GroupsRight(Value, OpsOf(tokens)[1], OpsOf(tokens)[2])
          ELSE GroupsLeft(Value, OpsOf(tokens)[1], OpsOf(tokens)[2])

\* `def a x + 1 * y ;` has been parsed as Add(x, Mul(1, y)).
C1_Witness ==
    /\ pc = "done"
    /\ tokens = DefOf(Chain(<<"Plus", "Star">>)) \o <<T("Semicolon")>>
    /\ IsChainInput(tokens) /\ OpsOf(tokens) = <<"Plus", "Star">>
    /\ GroupsRight(Value, "Plus", "Star")

RECURSIVE IsLeftFold(_, _, _)
\* e is BinOp(ops[n], ... BinOp(ops[1], x1, x2) ..., x(n+1)).
IsLeftFold(e, ops, n) ==
    IF n = 0 THEN e = Leaf(1)
    ELSE IsBinOp(e, ops[n]) /\ e.rhs = Leaf(n + 1) /\ IsLeftFold(e.lhs, ops, n - 1)

SameTier(ops) == \A i, j \in DOMAIN ops : TierOf(ops[i]) = TierOf(ops[j])

\* C2: a chain e1 op1 e2 ... opn e(n+1) whose operators all belong to one tier
\* parses to the left fold BinOp(opn, ... BinOp(op1, e1, e2) ..., e(n+1)).
C2_LeftAssociative ==
    (Finished /\ IsChainInput(tokens) /\ SameTier(OpsOf(tokens)))
    => result.ok /\ IsLeftFold(Value, OpsOf(tokens), Len(OpsOf(tokens)))

\* `def a x - 1 + y ;` has been parsed as Add(Sub(x, 1), y).
C2_Witness ==
    /\ pc = "done"
    /\ tokens = DefOf(Chain(<<"Minus", "Plus">>)) \o <<T("Semicolon")>>
    /\ IsChainInput(tokens) /\ SameTier(OpsOf(tokens))
    /\ IsLeftFold(Value, <<"Minus", "Plus">>, 2)
    /\ Value.lhs.kind = "BinOp"

\* C8: every BinOp node of a parsed tree spans from the start of its left
\* operand to the end of its right operand.
C8_BinOpSpanCoversOperands ==
    (Finished /\ result.ok)
    => \A e \in SubExprs(result.val) :
          e.kind = "BinOp" =>
              e.span.start = e.lhs.span.start /\ e.span.end = e.rhs.span.end

(***************************************************************************)
(* Variant literals                                                        *)
(***************************************************************************)
\* The item expected for the i-th `| Tag [: v]`.
ItemMatches(item, i, v) ==
    /\ item.name = Tag(i)
    /\ IF v = None THEN item.value = None
       ELSE /\ item.value # None
            /\ item.value[1].kind = (IF v[1].kind = "Name" THEN "Ident" ELSE "Literal")
            /\ (IF v[1].kind = "Name" THEN item.value[1].name ELSE item.value[1].text)
                   = v[1].text

\* C3: n >= 1 consecutive items `| name [: expr]` parse into one Variant node
\* with exactly n items in source order, each with its own name and value.
C3_VariantItemsPreserved ==
    Finished =>
        \A vals \in ValueChoices :
            tokens = DefOf(VariantTokens(vals, Len(vals))) \o <<T("Semicolon")>>
            => /\ result.ok
               /\ Value.kind = "Variant"
               /\ Len(Value.items) = Len(vals)
               /\ \A i \in DOMAIN vals : ItemMatches(Value.items[i], i, vals[i])

\* C9: variant() is entered only on a peeked `|`, from maybe_atom and with the
\* cursor where maybe_atom found it; it returns a non-empty item list, parse
\* never ends in the panic of the unwrap, and every Variant node of a returned
\* tree has at least one item.
C9_VariantNeverEmpty ==
    /\ (Running("variant") /\ Top.at = 0) =>
          /\ has_peek(pos, {"Pipe"})
          /\ stack[Len(stack) - 1].fn = "maybe_atom"
          /\ stack[Len(stack) - 1].from = pos
    /\ (pc = "parsing" /\ ret.fn = "variant") => Len(ret.value.items) >= 1
    /\ pc = "failed" => result.err.kind # "Panic"
    /\ (Finished /\ result.ok) =>
          \A e \in SubExprs(result.val) : e.kind = "Variant" => Len(e.items) >= 1

\* variant() has just returned the two items of `| Ok | Err`, entered on `|`.
C9_Witness ==
    /\ pc = "parsing"
    /\ ret.fn = "variant"
    /\ tokens[ret.from].kind = "Pipe"
    /\ Len(ret.value.items) = 2

(***************************************************************************)
(* Scopes                                                                  *)
(***************************************************************************)
\* The last item of a body that is not Empty.
LastReal(body) ==
    IF body[Len(body)].item = "Empty" /\ Len(body) > 1
    THEN body[Len(body) - 1]
    ELSE body[Len(body)]

\* The items of a body, each as its kind and, for an expression, its name.
ItemNames(body) ==
    [i \in DOMAIN body |->
        IF body[i].item = "Expr" THEN <<"Expr", body[i].expr.name>> ELSE <<body[i].item>>]

\* C4: when scope() returns a Scope node, Empty occurs at no position but the
\* last; an end token right after a `;` makes Empty the last item; an
\* expression before the end token that no `;` follows is the last item.  `(a; b)`
\* gives [Expr(a), Expr(b)] and `(a; b;)` gives [Expr(a), Expr(b), Empty].
C4_ScopeTail ==
    /\ (pc = "parsing" /\ ret.fn = "scope" /\ ret.value.kind = "Scope") =>
          LET body == ret.value.body
              n == Len(body)
              before == tokens[pos - 2]
          IN  /\ n >= 1
              /\ \A i \in 1..(n - 1) : body[i].item # "Empty"
              /\ before.kind = "Semicolon" =>
                    n >= 2 /\ body[n].item = "Empty"
              /\ (before.kind # "Semicolon" /\ LastReal(body).item = "Expr") =>
                    body[n].item = "Expr"
    /\ (Finished /\ tokens = Lex(<<"def", "a", "(", "a", ";", "b", ")", ";">>)) =>
          result.ok /\ Value.kind = "Scope"
          /\ ItemNames(Value.body) = <<(<<"Expr", "a">>), (<<"Expr", "b">>)>>
    /\ (Finished /\ tokens = Lex(<<"def", "a", "(", "a", ";", "b", ";", ")", ";">>)) =>
          result.ok /\ Value.kind = "Scope"
          /\ ItemNames(Value.body) = <<(<<"Expr", "a">>), (<<"Expr", "b">>), (<<"Empty">>)>>

\* scope() has just returned [Expr, Expr] for `x ; x` closed without a `;`.
C4_Witness ==
    /\ pc = "parsing"
    /\ ret.fn = "scope"
    /\ ret.value.kind = "Scope"
    /\ tokens[pos - 2].kind # "Semicolon"
    /\ Len(ret.value.body) = 2
    /\ ret.value.body[2].item = "Expr"

(***************************************************************************)
(* Definitions                                                             *)
(***************************************************************************)
\* The kinds a lexer may give the `=` of the source text.
AssignKinds == {"Assign", "Equal"}

One == TX("Integer", "1")

OneExpr == [kind |-> "Literal", lit |-> "Integer", text |-> "1", span |-> Span(2, 3)]

IsSingleDef(name, value) ==
    /\ result.ok
    /\ result.val.kind = "Object"
    /\ Len(result.val.definitions) = 1
    /\ result.val.definitions[1].name = name
    /\ result.val.definitions[1].value = value

BlockLike ==
    \/ tokens[ret.from].kind \in {"OpenBrace", "DotOpenBrace"}
    \/ ret.value[1].kind = "Lambda" /\ tokens[pos - 1].kind = "CloseBrace"

\* The step of def() that follows the return of def_block().
C6_Step ==
    (Running("def") /\ Top.at = 1) =>
        /\ ret.fn = "def_block"
        /\ ret.value[2] = ~BlockLike
        /\ IF BlockLike
           THEN /\ pc' = "parsing"
                /\ ret'.fn = "def"
                /\ ret'.value.value = ret.value[1]
                /\ ret'.value.span.end = ret.value[1].span.end
                /\ pos' = pos
           ELSE IF has_peek(pos, {"Semicolon"})
           THEN /\ pc' = "parsing"
                /\ ret'.fn = "def"
                /\ ret'.value.value = ret.value[1]
                /\ ret'.value.span.end = Token(pos).span.end
                /\ pos' = pos + 1
           ELSE /\ pc' = "failed"
                /\ result'.err.kind = "Unexpected"
                /\ stack' = <<>>

\* C6: after a brace scope, an object literal or a lambda sugar ending in its
\* `}`, def() takes no `;` and its span ends where the value ends; after every
\* other value the next token must be `;`, which ends the span, and anything
\* else makes def() fail without a Def.
C6_DefTerminator == [][C6_Step]_vars

\* def() has just returned, without a `;`, the lambda sugar `x { x }`.
C6_Witness ==
    /\ pc = "parsing"
    /\ ret.fn = "def"
    /\ ret.value.value.kind = "Lambda"
    /\ tokens[pos - 1].kind = "CloseBrace"
    /\ ret.value.span.end = ret.value.value.span.end

\* C7: an Unexpected error carries the offending token and its span when a
\* token is present at the cursor, and neither when the stream is exhausted.
C7_UnexpectedHasSpan ==
    (pc = "failed" /\ result.err.kind = "Unexpected") =>
        IF result.pos <= Len(tokens)
        THEN /\ result.err.tok = Some(Token(result.pos))
             /\ result.err.span = Some(Token(result.pos).span)
        ELSE result.err.tok = None /\ result.err.span = None

(***************************************************************************)
(* The size walk                                                           *)
(***************************************************************************)
RECURSIVE Rename(_, _, _)
RECURSIVE RenameDef(_, _, _)
RECURSIVE Texts(_)

Swap(t, old, new) == IF t = old THEN new ELSE t

\* The definition d with every interned text old replaced by new.
RenameDef(d, old, new) ==
    [d EXCEPT !.name = Swap(@, old, new), !.value = Rename(@, old, new)]

RenameItem(it, old, new) ==
    CASE it.item = "Expr" -> [it EXCEPT !.expr = Rename(@, old, new)]
      [] it.item = "Def" -> [it EXCEPT !.def = RenameDef(@, old, new)]
      [] OTHER -> it

RenameVariantItem(it, old, new) ==
    [name |-> Swap(it.name, old, new),
     value |-> IF it.value = None THEN None ELSE Some(Rename(it.value[1], old, new)),
     span |-> it.span]

\* The tree e with every interned text old replaced by new.
Rename(e, old, new) ==
    CASE e.kind = "Object" ->
             [e EXCEPT !.definitions = [i \in DOMAIN @ |-> RenameDef(@[i], old, new)]]
      [] e.kind = "Scope" ->
             [e EXCEPT !.body = [i \in DOMAIN @ |-> RenameItem(@[i], old, new)]]
      [] e.kind = "Lambda" ->
             [e EXCEPT !.arg = Rename(@, old, new), !.body = Rename(@, old, new)]
      [] e.kind = "BinOp" ->
             [e EXCEPT !.lhs = Rename(@, old, new), !.rhs = Rename(@, old, new)]
      [] e.kind = "UnOp" -> [e EXCEPT !.arg = Rename(@, old, new)]
      [] e.kind = "Access" ->
             [e EXCEPT !.expr = Rename(@, old, new), !.prop = Swap(@, old, new)]
      [] e.kind = "Tuple" ->
             [e EXCEPT !.exprs = [i \in DOMAIN @ |-> Rename(@[i], old, new)]]
      [] e.kind = "Apply" ->
             [e EXCEPT !.a = Rename(@, old, new), !.b = Rename(@, old, new)]
      [] e.kind = "TypeAssertion" ->
             [e EXCEPT !.a = Rename(@, old, new), !.b = Rename(@, old, new)]
      [] e.kind = "Variant" ->
             [e EXCEPT !.items = [i \in DOMAIN @ |-> RenameVariantItem(@[i], old, new)]]
      [] e.kind = "Ident" -> [e EXCEPT !.name = Swap(@, old, new)]
      [] e.kind = "Literal" ->
             IF e.lit = "String" THEN [e EXCEPT !.text = Swap(@, old, new)] ELSE e

TextsOfDef(d) == {d.name} \cup Texts(d.value)

\* The interned texts of the tree e.
Texts(e) ==
    CASE e.kind = "Object" -> UNION {TextsOfDef(e.definitions[i]) : i \in DOMAIN e.definitions}
      [] e.kind = "Scope" ->
             UNION {Texts(e.body[i].expr) :
                        i \in {j \in DOMAIN e.body : e.body[j].item = "Expr"}}
             \cup UNION {TextsOfDef(e.body[i].def) :
                        i \in {j \in DOMAIN e.body : e.body[j].item = "Def"}}
      [] e.kind = "Access" -> {e.prop} \cup Texts(e.expr)
      [] e.kind = "Variant" ->
             {e.items[i].name : i \in DOMAIN e.items}
             \cup UNION {Texts(c) : c \in Children(e)}
      [] e.kind = "Ident" -> {e.name}
      [] e.kind = "Literal" -> IF e.lit = "String" THEN {e.text} ELSE {}
      [] OTHER -> UNION {Texts(c) : c \in Children(e)}

Longer(t) == t \o "_"

\* C10: replacing an interned text of the tree (an Ident name, a String literal,
\* an Access property, a Def name or a VariantItem name) by a longer text
\* strictly increases ast_size of the whole tree.
C10_SizeGrowsWithText ==
    pc = "done" =>
        \A t \in Texts(result.val) :
            /\ Len(Longer(t)) > Len(t)
            /\ ast_size(Rename(result.val, t, Longer(t))) > size

(***************************************************************************)
(* Lambda sugar and type assertion at the two expression entry points      *)
(***************************************************************************)
\* The logical expressions P and T of `P body :: T`, as words.
SugarArgs == {<<"x">>, <<"x", "+", "1">>}

SugarTypes == {<<"t">>, <<"t", "*", "2">>}

SugarObjects == {<<".{", "}">>, <<".{", "def", "b", "1", ";", "}">>}

SugarScopes == {<<"{", "y", "}">>, <<"{", "y", ";", "}">>}

\* `def a P body :: T ;` enters def_expr at P; `def a ( P body :: T ) ;` enters
\* expr at P.
ViaDefExpr(P, body, Ty) == Lex(<<"def", "a">> \o P \o body \o <<"::">> \o Ty \o <<";">>)

ViaExpr(P, body, Ty) ==
    Lex(<<"def", "a", "(">> \o P \o body \o <<"::">> \o Ty \o <<")", ";">>)

SugarInputs ==
    {ViaDefExpr(P, body, Ty) : P \in SugarArgs, body \in SugarObjects \cup SugarScopes,
                              Ty \in SugarTypes}
    \cup {ViaExpr(P, body, Ty) : P \in SugarArgs, body \in SugarObjects \cup SugarScopes,
                                Ty \in SugarTypes}

InitSugar == \E ts \in SugarInputs \cup Samples : Start(ts)

SpecSugar == InitSugar /\ [][Next]_vars

\* e is the node of the one-token expression w at token index i.
IsAtomAt(e, w, i) ==
    /\ e.span = Span(i - 1, i)
    /\ IF Word(w).kind = "Name"
       THEN e.kind = "Ident" /\ e.name = w
       ELSE e.kind = "Literal" /\ e.text = w

\* e is the node of the words ws, an atom or `atom op atom`, starting at index i.
IsLogicalAt(e, ws, i) ==
    IF Len(ws) = 1 THEN IsAtomAt(e, ws[1], i)
    ELSE /\ e.kind = "BinOp"
         /\ e.op = BinOps[Word(ws[2]).kind]
         /\ IsAtomAt(e.lhs, ws[1], i)
         /\ IsAtomAt(e.rhs, ws[3], i + 2)

\* e is Lambda{arg: P, body} with a body of the kind the words of body give:
\* an Object for `.{ defs }`, a Scope for `{ y ; }` and, as scope() returns a
\* lone first expression unwrapped, the expression itself for `{ y }`.
IsSugarLambda(e, P, body, i) ==
    /\ e.kind = "Lambda"
    /\ IsLogicalAt(e.arg, P, i)
    /\ e.body.span.start = (IF body[1] = "{" /\ Len(body) = 3 THEN i + Len(P) ELSE i + Len(P) - 1)
    /\ e.body.kind = (CASE body[1] = ".{" -> "Object"
                        [] Len(body) = 3 -> "Ident"
                        [] OTHER -> "Scope")
    /\ body[1] = ".{" => Len(e.body.definitions) = (Len(body) - 2) \div 4

IsSugarAssertion(e, P, body, Ty, i) ==
    /\ e.kind = "TypeAssertion"
    /\ IsSugarLambda(e.a, P, body, i)
    /\ IsLogicalAt(e.b, Ty, i + Len(P) + Len(body) + 1)

\* C11: on `P .{ defs } :: T` def_expr consumes everything and returns
\* TypeAssertion{Lambda{P, Object}, T} with needs_semicolon true, while expr
\* returns Lambda{P, Object} and leaves the `::` unconsumed; on `P { body } :: T`
\* both return TypeAssertion{Lambda{P, body}, T}.
C11_SugarAsymmetry ==
    \A P \in SugarArgs, Ty \in SugarTypes :
        /\ \A body \in SugarObjects \cup SugarScopes :
              (pc = "parsing" /\ ret.fn = "def_expr" /\ ret.from = 3
                  /\ tokens = ViaDefExpr(P, body, Ty))
              => /\ IsSugarAssertion(ret.value[1], P, body, Ty, 3)
                 /\ ret.value[2] = TRUE
                 /\ pos = 3 + Len(P) + Len(body) + 1 + Len(Ty)
        /\ \A body \in SugarObjects :
              (pc = "parsing" /\ ret.fn = "expr" /\ ret.from = 4
                  /\ tokens = ViaExpr(P, body, Ty))
              => /\ IsSugarLambda(ret.value, P, body, 4)
                 /\ pos = 4 + Len(P) + Len(body)
                 /\ tokens[pos].kind = "ColonColon"
        /\ \A body \in SugarScopes :
              (pc = "parsing" /\ ret.fn = "expr" /\ ret.from = 4
                  /\ tokens = ViaExpr(P, body, Ty))
              => /\ IsSugarAssertion(ret.value, P, body, Ty, 4)
                 /\ pos = 4 + Len(P) + Len(body) + 1 + Len(Ty)
        /\ \A body \in SugarObjects \cup SugarScopes :
              (Finished /\ tokens \in {ViaDefExpr(P, body, Ty), ViaExpr(P, body, Ty)})
              => (result.ok <=> ~(tokens = ViaExpr(P, body, Ty) /\ body \in SugarObjects))

\* expr has just returned the lambda of `x .{ } :: t` with the `::` unconsumed.
C11_Witness ==
    /\ pc = "parsing"
    /\ ret.fn = "expr"
    /\ ret.from = 4
    /\ tokens = ViaExpr(<<"x">>, <<".{", "}">>, <<"t">>)
    /\ ret.value.kind = "Lambda"
    /\ ret.value.body.kind = "Object"
    /\ tokens[pos].kind = "ColonColon"

(***************************************************************************)
(* Progress and termination                                                *)
(***************************************************************************)
MaxStream == 2

ProgressAlphabet == {"x", ";", "(", ")", "|", ":", "+", "^", "{", "}"}

\* Programs that take every parser loop around more than once.
ProgressSamples ==
    {Lex(<<"def", "a", "x", "^", ".", "p", "y", "z", ";", "def", "b", "(", "x", ",",
           "y", ",", "z", ")", ";">>),
     Lex(<<"def", "a", "{", "x", ";", "def", "c", "1", ";", "y", ";", "!", "!", "z", "}",
           "def", "b", "|", "A", "|", "B", ":", "(", "(", "x", ")", ")", ";">>),
     Lex(<<"def", "a", "x", "+", "1", "-", "y", "*", "2", "*", "z", ";">>)}

ProgressInputs ==
    {Lex(s) : s \in Seqs(ProgressAlphabet, MaxStream)}
    \cup {Lex(<<"def", "a">> \o s) : s \in Seqs(ProgressAlphabet, MaxStream)}
    \cup ProgressSamples

InitProgress == \E ts \in ProgressInputs \cup Samples : Start(ts)

\* Where the run stands: every step of Next changes it.
run == <<pc, pos, Len(stack)>>

\* The driver runs the parse to its end: a step that can be taken is taken.
SpecProgress == InitProgress /\ [][Next]_vars /\ WF_run(Next)

\* The methods that hold a loop.
Loops == {"object_body", "scope", "tuple", "variant", "bin_op", "suffix"}

\* What tells one parsing function from another: bin_op is one per tier.
FrameKey(f) == IF f.fn = "bin_op" THEN <<f.fn, f.l.next>> ELSE <<f.fn>>

\* A function entered again while it is running was entered further on.
ReentryAdvances ==
    \A i, j \in DOMAIN stack :
        (i < j /\ FrameKey(stack[i]) = FrameKey(stack[j])) => stack[i].from < stack[j].from

\* A method that returned consumed a token, but for object_body on no
\* definition and maybe_atom on no atom.
ReturnConsumed ==
    (pc = "parsing" /\ ret.fn # "") =>
        /\ pos >= ret.from
        /\ pos = ret.from => ret.fn = "object_body" \/ (ret.fn = "maybe_atom" /\ ret.value = None)

\* One step of the parse: the cursor never moves back; a loop that goes round
\* without a call consumes a token; a loop whose callee consumed nothing leaves
\* (returns or fails); a finished parse keeps its one result.
C12_Step ==
    /\ pos' >= pos
    /\ ReentryAdvances
    /\ ReturnConsumed
    /\ (pc = "parsing" /\ pc' = "parsing" /\ Top.fn \in Loops /\ Len(stack') = Len(stack))
          => pos' > pos
    /\ (pc = "parsing" /\ Top.fn \in Loops /\ ret.fn # "" /\ pos = ret.from)
          => pc' = "failed" \/ Len(stack') < Len(stack)
    /\ Finished => result' = result

\* C12: on every token stream the parse ends, in Ok(tree) or in one Err, and
\* every loop iteration and every re-entry of a parsing function consumes at
\* least one token or ends in an error.
C12_ProgressAndTermination ==
    /\ [][C12_Step]_vars
    /\ <>(pc \in {"done", "failed"})

\* A parse that went round the loops of object_body, suffix and tuple has ended
\* with every token consumed.
C12_Witness ==
    /\ pc = "done"
    /\ tokens \in ProgressSamples
    /\ Len(result.val.definitions) = 2
    /\ result.val.definitions[2].value.kind = "Tuple"
    /\ pos = Len(tokens) + 1

====
